---- MODULE Spec2Model ----
(***************************************************************************)
(* Model of src/main.rs: a Dioxus component that, once its canvas has      *)
(* mounted, initialises WebGL a single time (std::sync::Once guard behind  *)
(* a 50 ms timer) and then drives a self-rescheduling                      *)
(* requestAnimationFrame loop drawing a rotating cube.                     *)
(*                                                                         *)
(* Everything runs on the browser's single event-loop thread: an effect    *)
(* run, an event handler, the part of a spawned task after its await and   *)
(* a frame callback each run to completion.  The model splits such a run   *)
(* into steps at the source's branch points and lets no other run start    *)
(* while one is in progress (Busy).                                        *)
(*                                                                         *)
(* f32 values are pairs <<m, e>> standing for m * 2^e with                 *)
(* 2^23 <= m < 2^24 (or <<0, 0>> for 0.0); addition rounds to nearest,     *)
(* ties to even, as IEEE-754 binary32 does.  Mesh coordinates and colours  *)
(* are written in tenths (0.4 is 4): they are only stored and compared.    *)
(* frame_count is a u32; the model stops ticking at MaxTicks, far below    *)
(* 2^32, so its wrap-around is not reached.                                *)
(***************************************************************************)
EXTENDS Integers, Sequences, FiniteSets, TLC

\* Bounds of the model.
MaxTasks == 3
MaxTicks == 8
RotN == 5

\* Program constants.
LogEvery == 60
CanvasSize == 480

Tasks == 1..MaxTasks

(***************************************************************************)
(* binary32 arithmetic on non-negative values.                             *)
(***************************************************************************)
F32Zero == <<0, 0>>

MantMin == 2^23

MantMax == 2^24

\* Renormalise a mantissa that rounding may have carried up to 2^24.
F32Carry(m, e) == IF m = MantMax THEN <<MantMin, e + 1>> ELSE <<m, e>>

\* a + b, rounded to nearest, ties to even (a, b >= 0, normal range).
F32Add(a, b) ==
  IF a[1] = 0 THEN b
  ELSE IF b[1] = 0 THEN a
  ELSE LET hi == IF a[2] >= b[2] THEN a ELSE b
           lo == IF a[2] >= b[2] THEN b ELSE a
           d  == hi[2] - lo[2]
       IN IF d > 25 THEN hi
          ELSE LET unit == 2^d
                   bh == lo[1] \div unit
                   bl == lo[1] % unit
                   s  == hi[1] + bh
               IN IF s < MantMax
                  THEN LET up == (2 * bl > unit) \/ (2 * bl = unit /\ s % 2 = 1)
                       IN F32Carry(IF up THEN s + 1 ELSE s, hi[2])
                  ELSE LET q  == s \div 2
                           r  == (s % 2) * unit + bl
                           up == (r > unit) \/ (r = unit /\ q % 2 = 1)
                       IN F32Carry(IF up THEN q + 1 ELSE q, hi[2] + 1)

\* a <= b on non-negative binary32 values.
F32Le(a, b) ==
  IF a[1] = 0 THEN TRUE
  ELSE IF b[1] = 0 THEN FALSE
  ELSE a[2] < b[2] \/ (a[2] = b[2] /\ a[1] <= b[1])

\* The literal 0.02 as a binary32: 0x3CA3D70A = 10737418 * 2^-29.
AngleStep == <<10737418, -29>>

(***************************************************************************)
(* The mesh (main.rs 158-180).                                             *)
(***************************************************************************)
vertices ==
  << -4, -4,  2,   4, -4,  2,   4,  4,  2,  -4,  4,  2,
     -4, -4, -2,   4, -4, -2,   4,  4, -2,  -4,  4, -2 >>

colors ==
  << 10, 0, 0,   0, 10, 0,   0, 0, 10,   10, 10, 0,
     10, 0, 10,  0, 10, 10,  10, 10, 10,  5, 5, 5 >>

indicesRepeatedFace ==
  << 0, 1, 2, 2, 3, 0,
     4, 6, 5, 6, 4, 7,
     4, 0, 3, 3, 7, 4,
     1, 5, 6, 6, 2, 1,
     3, 2, 6, 6, 7, 3,
     0, 1, 2, 2, 3, 0 >>

indices ==
  << 0, 1, 2, 2, 3, 0,
     4, 6, 5, 6, 4, 7,
     4, 0, 3, 3, 7, 4,
     1, 5, 6, 6, 2, 1,
     3, 2, 6, 6, 7, 3,
     4, 5, 1, 1, 0, 4 >>

draw_elements_count_vertices == Len(vertices)

\* indices.len() as i32, the count handed to draw_elements (main.rs 305).
draw_elements_count == Len(indices)

(***************************************************************************)
(* Console messages and graphics calls.                                    *)
(***************************************************************************)
MsgAlready == "WebGL initialization already completed"
MsgInit == "Initializing WebGL (single time)..."
MsgConfigured == "WebGL context configured"
MsgVertErr == "Vertex shader compilation error"
MsgFragErr == "Fragment shader compilation error"
MsgLinkErr == "Program linking error"
MsgLinked == "Shaders compiled and program linked"
MsgLocs == "Position attribute location, Color attribute location"
MsgAttribErr == "Failed to get attribute locations"
MsgBuffers == "Buffers and attributes configured"
MsgStarted == "Animation started successfully!"
MsgFrame == "Rendering frame"
MsgGlErr == "WebGL error"

\* console::error_1 messages.
ErrorMsgs == {MsgVertErr, MsgFragErr, MsgLinkErr, MsgAttribErr, MsgGlErr}

\* console::log_1 messages.
InfoMsgs == {MsgAlready, MsgInit, MsgConfigured, MsgLinked, MsgLocs,
             MsgBuffers, MsgStarted, MsgFrame}

Msgs == ErrorMsgs \cup InfoMsgs

ShaderOps == {"create_shader", "shader_source", "compile_shader",
              "get_shader_parameter", "get_shader_info_log"}

ProgramOps == {"create_program", "attach_shader", "link_program",
               "get_program_parameter", "get_program_info_log", "use_program"}

BufferOps == {"create_buffer", "bind_buffer", "buffer_data"}

AttribOps == {"get_attrib_location", "enable_vertex_attrib_array",
              "vertex_attrib_pointer"}

ContextOps == {"viewport", "disable"}

FrameOps == {"clear_color", "clear", "get_uniform_location",
             "uniform_matrix4fv", "draw_elements", "get_error"}

GLOps == ShaderOps \cup ProgramOps \cup BufferOps \cup AttribOps
           \cup ContextOps \cup FrameOps

\* The call counts g after the calls listed in seq have been issued.
Called(g, seq) ==
  [op \in DOMAIN g |-> g[op] + Cardinality({k \in DOMAIN seq : seq[k] = op})]

\* The console c after message m has been logged.
Logged(c, m) == [c EXCEPT ![m] = @ + 1]

VARIABLES
  canvas_mounted,  \* the use_signal flag
  effectDirty,     \* the use_effect closure is scheduled to run
  task,            \* position of each spawned async task
  INIT_ONCE,       \* the static Once has completed
  running,         \* the task whose post-await part is executing, or 0
  glBy,            \* history: graphics calls issued by each task
  canvas,          \* the canvas element's width and height
  ctxRequests,     \* canvas.get_context calls
  gl,              \* calls issued on the WebGL2 context, per method
  glst,            \* state of the context
  buffers,         \* contents uploaded to the three buffers
  locs,            \* <<pos_loc, color_loc>> once resolved
  console,         \* messages written to the console, per message
  animation_loop,  \* the Rc<RefCell<Option<Closure>>> holds a closure
  pendingFrames,   \* frame callbacks queued by request_animation_frame
  framePc,         \* position inside the running frame callback
  frame_count,     \* the closure's frame counter
  angle,           \* the shared rotation angle
  current_angle,   \* the callback's local copy of the angle
  uniformAngle,    \* angle whose matrix was last uploaded to modelViewMatrix
  drawCounts,      \* index counts handed to draw_elements so far
  frameError,      \* get_error was not NO_ERROR in the latest check
  theta,           \* argument of rotation_matrix_y
  model            \* result of rotation_matrix_y, <<>> before the call

mountVars == <<canvas_mounted, effectDirty>>
setupVars == <<INIT_ONCE, canvas, ctxRequests, glst, buffers, locs, animation_loop>>
frameVars == <<pendingFrames, framePc, frame_count, angle, current_angle,
               uniformAngle, drawCounts, frameError>>
rotVars == <<theta, model>>
vars == <<mountVars, task, running, glBy, setupVars, gl, console, frameVars, rotVars>>

\* A run-to-completion piece of code is executing on the event loop.
Busy == running # 0 \/ framePc # "idle"

GlstInit ==
  [viewport |-> <<>>, depthTest |-> FALSE, cullFace |-> FALSE,
   program |-> "none", arrayBinding |-> "none", elementBinding |-> "none",
   enabled |-> {}, attribPointer |-> {}]

InitMain ==
  /\ canvas_mounted = FALSE
  /\ effectDirty = TRUE
  /\ task = [i \in Tasks |-> "unspawned"]
  /\ INIT_ONCE = FALSE
  /\ running = 0
  /\ glBy = [i \in Tasks |-> 0]
  /\ canvas = [width |-> CanvasSize, height |-> CanvasSize]
  /\ ctxRequests = 0
  /\ gl = [op \in GLOps |-> 0]
  /\ glst = GlstInit
  /\ buffers = [pos |-> <<>>, color |-> <<>>, index |-> <<>>]
  /\ locs = <<>>
  /\ console = [m \in Msgs |-> 0]
  /\ animation_loop = FALSE
  /\ pendingFrames = 0
  /\ framePc = "idle"
  /\ frame_count = 0
  /\ angle = F32Zero
  /\ current_angle = F32Zero
  /\ uniformAngle = <<>>
  /\ drawCounts = {}
  /\ frameError = FALSE

Init ==
  /\ InitMain
  /\ theta = <<0, 1>>
  /\ model = <<>>

(***************************************************************************)
(* The UI shell: the mount signal and the effect (main.rs 46-54, 361-363). *)
(***************************************************************************)
\* onmounted: canvas_mounted.set(true); a write re-schedules the subscribed effect.
OnMounted ==
  /\ ~Busy
  /\ canvas_mounted' = TRUE
  /\ effectDirty' = TRUE
  /\ UNCHANGED <<task, running, glBy, setupVars, gl, console, frameVars, rotVars>>

\* The next task slot spawn() would fill.
NextSlot == CHOOSE i \in Tasks : task[i] = "unspawned" /\ \A j \in 1..(i - 1) : task[j] # "unspawned"

\* use_effect closure: return unless mounted, else spawn the async task,
\* which first awaits the 50 ms TimeoutFuture.
RunEffect ==
  /\ ~Busy
  /\ effectDirty
  /\ canvas_mounted => \E i \in Tasks : task[i] = "unspawned"
  /\ effectDirty' = FALSE
  /\ task' = IF canvas_mounted THEN [task EXCEPT ![NextSlot] = "sleeping"] ELSE task
  /\ UNCHANGED <<canvas_mounted, running, glBy, setupVars, gl, console, frameVars, rotVars>>

(***************************************************************************)
(* The one-time initializer (main.rs 54-349).                              *)
(***************************************************************************)
request_animation_frame_twice(pending) == pending + 2

\* window.request_animation_frame(closure) queues one callback.
request_animation_frame(pending) == pending + 1

call_once_always(once) == TRUE

\* INIT_ONCE.call_once(|| should_init = true): the closure runs iff the Once
\* has not completed; the result is should_init.
call_once(once) == ~once

\* Task i issues the calls in seq on the context.
Issue(i, seq) ==
  /\ gl' = Called(gl, seq)
  /\ glBy' = [glBy EXCEPT ![i] = @ + Len(seq)]

\* The timer has fired and the task is polled: the guard (main.rs 55-68).
Guard(i) ==
  /\ ~Busy
  /\ task[i] = "sleeping"
  /\ INIT_ONCE' = TRUE
  /\ IF call_once(INIT_ONCE)
     THEN /\ task' = [task EXCEPT ![i] = "canvas"]
          /\ running' = i
          /\ console' = console
     ELSE /\ task' = [task EXCEPT ![i] = "already"]
          /\ running' = 0
          /\ console' = Logged(console, MsgAlready)
  /\ UNCHANGED <<mountVars, glBy, canvas, ctxRequests, glst, buffers, locs,
                 animation_loop, gl, frameVars, rotVars>>

\* Canvas lookup and context acquisition (main.rs 70-95).  Every result on
\* the way is unwrapped; get_context's is unwrapped twice, so an Err or a
\* None panics the task, which writes nothing to the console itself.
AcquireContext(i) ==
  /\ task[i] = "canvas"
  /\ running = i
  /\ ctxRequests' = ctxRequests + 1
  /\ \E ok \in BOOLEAN :
       IF ok
       THEN /\ canvas' = [width |-> CanvasSize, height |-> CanvasSize]
            /\ Issue(i, <<"viewport", "disable", "disable">>)
            /\ glst' = [glst EXCEPT !.viewport = <<0, 0, CanvasSize, CanvasSize>>,
                                    !.depthTest = FALSE, !.cullFace = FALSE]
            /\ console' = Logged(Logged(console, MsgInit), MsgConfigured)
            /\ task' = [task EXCEPT ![i] = "vert"]
            /\ running' = i
       ELSE /\ console' = Logged(console, MsgInit)
            /\ task' = [task EXCEPT ![i] = "panicked"]
            /\ running' = 0
            /\ UNCHANGED <<canvas, gl, glBy, glst>>
  /\ UNCHANGED <<mountVars, INIT_ONCE, buffers, locs, animation_loop, frameVars, rotVars>>

\* Vertex shader (main.rs 98-115).
VertexShader(i) ==
  /\ task[i] = "vert"
  /\ running = i
  /\ \E ok \in BOOLEAN :
       IF ok
       THEN /\ Issue(i, <<"create_shader", "shader_source", "compile_shader",
                          "get_shader_parameter">>)
            /\ task' = [task EXCEPT ![i] = "frag"]
            /\ running' = i
            /\ console' = console
       ELSE /\ Issue(i, <<"create_shader", "shader_source", "compile_shader",
                          "get_shader_parameter", "get_shader_info_log">>)
            /\ console' = Logged(console, MsgVertErr)
            /\ task' = [task EXCEPT ![i] = "vertFailed"]
            /\ running' = 0
  /\ UNCHANGED <<mountVars, setupVars, frameVars, rotVars>>

FragmentShaderNoReturn(i) ==
  /\ task[i] = "frag"
  /\ running = i
  /\ \E ok \in BOOLEAN :
       IF ok
       THEN /\ Issue(i, <<"create_shader", "shader_source", "compile_shader",
                          "get_shader_parameter">>)
            /\ console' = console
       ELSE /\ Issue(i, <<"create_shader", "shader_source", "compile_shader",
                          "get_shader_parameter", "get_shader_info_log">>)
            /\ console' = Logged(console, MsgFragErr)
  /\ task' = [task EXCEPT ![i] = "link"]
  /\ running' = i
  /\ UNCHANGED <<mountVars, setupVars, frameVars, rotVars>>

\* Fragment shader (main.rs 117-134).
FragmentShader(i) ==
  /\ task[i] = "frag"
  /\ running = i
  /\ \E ok \in BOOLEAN :
       IF ok
       THEN /\ Issue(i, <<"create_shader", "shader_source", "compile_shader",
                          "get_shader_parameter">>)
            /\ task' = [task EXCEPT ![i] = "link"]
            /\ running' = i
            /\ console' = console
       ELSE /\ Issue(i, <<"create_shader", "shader_source", "compile_shader",
                          "get_shader_parameter", "get_shader_info_log">>)
            /\ console' = Logged(console, MsgFragErr)
            /\ task' = [task EXCEPT ![i] = "fragFailed"]
            /\ running' = 0
  /\ UNCHANGED <<mountVars, setupVars, frameVars, rotVars>>

\* Program creation and linking (main.rs 136-155).
LinkProgram(i) ==
  /\ task[i] = "link"
  /\ running = i
  /\ \E ok \in BOOLEAN :
       IF ok
       THEN /\ Issue(i, <<"create_program", "attach_shader", "attach_shader",
                          "link_program", "get_program_parameter", "use_program">>)
            /\ glst' = [glst EXCEPT !.program = "program"]
            /\ console' = Logged(console, MsgLinked)
            /\ task' = [task EXCEPT ![i] = "buffers"]
            /\ running' = i
       ELSE /\ Issue(i, <<"create_program", "attach_shader", "attach_shader",
                          "link_program", "get_program_parameter",
                          "get_program_info_log">>)
            /\ glst' = glst
            /\ console' = Logged(console, MsgLinkErr)
            /\ task' = [task EXCEPT ![i] = "linkFailed"]
            /\ running' = 0
  /\ UNCHANGED <<mountVars, INIT_ONCE, canvas, ctxRequests, buffers, locs,
                 animation_loop, frameVars, rotVars>>

\* The three buffers: create, bind, upload (main.rs 157-219).
UploadBuffers(i) ==
  /\ task[i] = "buffers"
  /\ running = i
  /\ Issue(i, <<"create_buffer", "bind_buffer", "buffer_data",
                "create_buffer", "bind_buffer", "buffer_data",
                "create_buffer", "bind_buffer", "buffer_data">>)
  /\ buffers' = [pos |-> vertices, color |-> colors, index |-> indices]
  /\ glst' = [glst EXCEPT !.arrayBinding = "color", !.elementBinding = "index"]
  /\ task' = [task EXCEPT ![i] = "attribs"]
  /\ UNCHANGED <<mountVars, running, INIT_ONCE, canvas, ctxRequests, locs,
                 animation_loop, console, frameVars, rotVars>>

\* Slots get_attrib_location may return for the two names: -1 when a name
\* does not resolve, distinct slots when both do.
AttribLocs ==
  {l \in {-1, 0, 1} \X {-1, 0, 1} : (l[1] >= 0 /\ l[2] >= 0) => l[1] # l[2]}

attribs_resolved_pos_only(pos_loc, color_loc) == ~(pos_loc < 0)

\* The negation of `pos_loc < 0 || color_loc < 0` (main.rs 233).
attribs_resolved(pos_loc, color_loc) == ~(pos_loc < 0 \/ color_loc < 0)

\* Attribute lookup (main.rs 221-236).
ResolveAttribs(i) ==
  /\ task[i] = "attribs"
  /\ running = i
  /\ Issue(i, <<"get_attrib_location", "get_attrib_location">>)
  /\ \E l \in AttribLocs :
       /\ locs' = l
       /\ IF attribs_resolved(l[1], l[2])
          THEN /\ console' = Logged(console, MsgLocs)
               /\ task' = [task EXCEPT ![i] = "bind"]
               /\ running' = i
          ELSE /\ console' = Logged(Logged(console, MsgLocs), MsgAttribErr)
               /\ task' = [task EXCEPT ![i] = "attribFailed"]
               /\ running' = 0
  /\ UNCHANGED <<mountVars, INIT_ONCE, canvas, ctxRequests, glst, buffers,
                 animation_loop, frameVars, rotVars>>

\* Binding each buffer to its attribute slot (main.rs 238-263):
\* vertex_attrib_pointer ties the slot to the ARRAY_BUFFER bound at the call.
BindAttribs(i) ==
  /\ task[i] = "bind"
  /\ running = i
  /\ Issue(i, <<"bind_buffer", "enable_vertex_attrib_array", "vertex_attrib_pointer",
                "bind_buffer", "enable_vertex_attrib_array", "vertex_attrib_pointer">>)
  /\ glst' = [glst EXCEPT !.arrayBinding = "color",
                          !.enabled = {locs[1], locs[2]},
                          !.attribPointer = {<<locs[1], "pos">>, <<locs[2], "color">>}]
  /\ console' = Logged(console, MsgBuffers)
  /\ task' = [task EXCEPT ![i] = "start"]
  /\ UNCHANGED <<mountVars, running, INIT_ONCE, canvas, ctxRequests, buffers, locs,
                 animation_loop, frameVars, rotVars>>

\* Building the closure with its angle and frame counter, and the first
\* request_animation_frame (main.rs 265-349).
StartAnimation(i) ==
  /\ task[i] = "start"
  /\ running = i
  /\ animation_loop' = TRUE
  /\ angle' = F32Zero
  /\ frame_count' = 0
  /\ pendingFrames' = request_animation_frame(pendingFrames)
  /\ console' = Logged(console, MsgStarted)
  /\ task' = [task EXCEPT ![i] = "started"]
  /\ running' = 0
  /\ UNCHANGED <<mountVars, glBy, INIT_ONCE, canvas, ctxRequests, glst, buffers, locs,
                 gl, framePc, current_angle, uniformAngle, drawCounts, frameError,
                 rotVars>>

(***************************************************************************)
(* The frame callback (main.rs 274-332).                                   *)
(***************************************************************************)
\* The browser runs a queued callback; the closure reads the angle, bumps
\* the frame counter and logs every 60th frame (main.rs 275-285).
FrameBegin ==
  /\ ~Busy
  /\ pendingFrames > 0
  /\ frame_count < MaxTicks
  /\ pendingFrames' = pendingFrames - 1
  /\ current_angle' = angle
  /\ frame_count' = frame_count + 1
  /\ console' = IF (frame_count + 1) % LogEvery = 0
                THEN Logged(console, MsgFrame) ELSE console
  /\ framePc' = "draw"
  /\ UNCHANGED <<mountVars, task, running, glBy, setupVars, gl, angle,
                 uniformAngle, drawCounts, frameError, rotVars>>

\* Clear, upload rotation_matrix_y(current_angle), bind the index buffer
\* and draw (main.rs 287-308).
FrameDraw ==
  /\ framePc = "draw"
  /\ gl' = Called(gl, <<"clear_color", "clear", "get_uniform_location",
                        "uniform_matrix4fv", "bind_buffer", "draw_elements">>)
  /\ uniformAngle' = current_angle
  /\ glst' = [glst EXCEPT !.elementBinding = "index"]
  /\ drawCounts' = drawCounts \cup {draw_elements_count}
  /\ framePc' = "check"
  /\ UNCHANGED <<mountVars, task, running, glBy, INIT_ONCE, canvas, ctxRequests,
                 buffers, locs, animation_loop, console, pendingFrames, frame_count,
                 angle, current_angle, frameError, rotVars>>

FrameCheckErrorFatal ==
  /\ framePc = "check"
  /\ gl' = Called(gl, <<"get_error">>)
  /\ \E err \in BOOLEAN :
       /\ frameError' = err
       /\ console' = IF err THEN Logged(console, MsgGlErr) ELSE console
       /\ framePc' = IF err THEN "idle" ELSE "advance"
  /\ UNCHANGED <<mountVars, task, running, glBy, setupVars, pendingFrames,
                 frame_count, angle, current_angle, uniformAngle, drawCounts, rotVars>>

\* get_error; a value other than NO_ERROR is logged and nothing else
\* (main.rs 310-314).
FrameCheckError ==
  /\ framePc = "check"
  /\ gl' = Called(gl, <<"get_error">>)
  /\ \E err \in BOOLEAN :
       /\ frameError' = err
       /\ console' = IF err THEN Logged(console, MsgGlErr) ELSE console
  /\ framePc' = "advance"
  /\ UNCHANGED <<mountVars, task, running, glBy, setupVars, pendingFrames,
                 frame_count, angle, current_angle, uniformAngle, drawCounts, rotVars>>

next_angle_stale(a) == a

\* current_angle += 0.02 in f32 (main.rs 317).
next_angle(a) == F32Add(a, AngleStep)

\* Advance the angle and store it back (main.rs 316-318).
FrameAdvance ==
  /\ framePc = "advance"
  /\ current_angle' = next_angle(current_angle)
  /\ angle' = current_angle'
  /\ framePc' = "schedule"
  /\ UNCHANGED <<mountVars, task, running, glBy, setupVars, gl, console,
                 pendingFrames, frame_count, uniformAngle, drawCounts, frameError,
                 rotVars>>

\* Schedule the next frame; the callback returns (main.rs 320-332).
FrameSchedule ==
  /\ framePc = "schedule"
  /\ pendingFrames' = request_animation_frame(pendingFrames)
  /\ framePc' = "idle"
  /\ UNCHANGED <<mountVars, task, running, glBy, setupVars, gl, console,
                 frame_count, angle, current_angle, uniformAngle, drawCounts,
                 frameError, rotVars>>

SetupStep ==
  \E i \in Tasks :
    \/ AcquireContext(i)
    \/ VertexShader(i)
    \/ FragmentShader(i)
    \/ LinkProgram(i)
    \/ UploadBuffers(i)
    \/ ResolveAttribs(i)
    \/ BindAttribs(i)
    \/ StartAnimation(i)

FrameStep ==
  \/ FrameBegin
  \/ FrameDraw
  \/ FrameCheckError
  \/ FrameAdvance
  \/ FrameSchedule

Next ==
  \/ OnMounted
  \/ RunEffect
  \/ \E i \in Tasks : Guard(i)
  \/ SetupStep
  \/ FrameStep

Spec == Init /\ [][Next]_vars

\* The event loop runs every started piece of code to its end and delivers
\* every queued frame callback and every expired timer.
LiveSpec ==
  /\ Spec
  /\ WF_vars(SetupStep)
  /\ WF_vars(FrameStep)
  /\ WF_vars(\E i \in Tasks : Guard(i))

(***************************************************************************)
(* rotation_matrix_y (main.rs 10-15), checked on its own.                  *)
(*                                                                         *)
(* An angle is named by its half-angle tangent p/q, theta = 2*atan(p/q),   *)
(* for which sin and cos are the rationals 2pq/(p^2+q^2) and               *)
(* (q^2-p^2)/(p^2+q^2).  A matrix is its 16 numerators in the source's     *)
(* order together with the common denominator.                             *)
(***************************************************************************)
Angles == {a \in (-RotN..RotN) \X (0..RotN) : a # <<0, 0>>}

\* angle.sin_cos(): numerators of (sin, cos) and their denominator.
sin_cos(a) ==
  [s |-> 2 * a[1] * a[2], c |-> a[2] * a[2] - a[1] * a[1],
   one |-> a[1] * a[1] + a[2] * a[2]]

rotation_matrix_y_sign_slip(a) ==
  LET sc == sin_cos(a)
      s == sc.s
      c == sc.c
      one == sc.one
  IN [den |-> one,
      m |-> << c, 0, s, 0,   0, one, 0, 0,   s, 0, c, 0,   0, 0, 0, one >>]

rotation_matrix_y(a) ==
  LET sc == sin_cos(a)
      s == sc.s
      c == sc.c
      one == sc.one
  IN [den |-> one,
      m |-> << c, 0, s, 0,   0, one, 0, 0,   -s, 0, c, 0,   0, 0, 0, one >>]

ApplyRotation ==
  /\ model = <<>>
  /\ model' = rotation_matrix_y(theta)
  /\ UNCHANGED <<mountVars, task, running, glBy, setupVars, gl, console, frameVars, theta>>

InitRot ==
  /\ InitMain
  /\ theta \in Angles
  /\ model = <<>>

SpecRot == InitRot /\ [][ApplyRotation]_vars

(***************************************************************************)
(* Properties.                                                             *)
(***************************************************************************)
\* Tasks that have executed the guard.
PassedGuard == {i \in Tasks : task[i] \notin {"unspawned", "sleeping"}}

\* Tasks the guard let through to setup.
Initializers == {i \in Tasks : task[i] \notin {"unspawned", "sleeping", "already"}}

LoopStarted == \E i \in Tasks : task[i] = "started"

\* The frame loop is in its idle state: nothing scheduled, nothing run.
LoopIdle ==
  /\ pendingFrames = 0
  /\ framePc = "idle"
  /\ ~animation_loop
  /\ frame_count = 0
  /\ console[MsgStarted] = 0
  /\ \A op \in FrameOps : gl[op] = 0

\* C1: however many tasks the mount signals spawn and however they
\* interleave, at most one task performs setup side effects (context
\* acquisition, shaders, program, buffers, attributes, starting the loop);
\* every other task that reaches the guard logs "already completed" and
\* issues no graphics call; once the guard has been invoked at all, exactly
\* one task is the initializer.
C1_SetupAtMostOnce ==
  /\ Cardinality(Initializers) <= 1
  /\ PassedGuard # {} => Cardinality(Initializers) = 1
  /\ Cardinality({i \in Tasks : glBy[i] > 0}) <= 1
  /\ \A i \in Tasks : task[i] = "already" => glBy[i] = 0
  /\ console[MsgAlready] = Cardinality(PassedGuard \ Initializers)
  /\ ctxRequests <= 1
  /\ console[MsgInit] <= 1
  /\ gl["create_shader"] <= 2
  /\ gl["compile_shader"] <= 2
  /\ gl["create_program"] <= 1
  /\ gl["link_program"] <= 1
  /\ gl["create_buffer"] <= 3
  /\ gl["buffer_data"] <= 3
  /\ gl["enable_vertex_attrib_array"] <= 2
  /\ console[MsgStarted] <= 1

C1_Witness ==
  \E i, j, k \in Tasks :
    /\ task[i] = "already"
    /\ task[j] = "started"
    /\ task[k] = "already"
    /\ i < j /\ j < k
    /\ gl["create_buffer"] = 3

\* C2: when the vertex compile, the fragment compile, the link or the
\* attribute lookup fails, a diagnostic is logged, no later setup step has
\* run, no frame callback is ever scheduled, the Once stays consumed and no
\* other task re-runs setup: the loop stays idle in every later state.
C2_FailureAbortsForGood ==
  /\ \A i \in Tasks :
       /\ task[i] = "vertFailed" => console[MsgVertErr] = 1
       /\ task[i] = "fragFailed" => console[MsgFragErr] = 1
       /\ task[i] = "linkFailed" => console[MsgLinkErr] = 1
       /\ task[i] = "attribFailed" => console[MsgAttribErr] = 1
  /\ console[MsgVertErr] > 0 =>
       /\ gl["create_shader"] = 1
       /\ \A op \in ProgramOps \cup BufferOps \cup AttribOps : gl[op] = 0
  /\ console[MsgFragErr] > 0 =>
       /\ gl["create_shader"] = 2
       /\ \A op \in ProgramOps \cup BufferOps \cup AttribOps : gl[op] = 0
  /\ console[MsgLinkErr] > 0 =>
       /\ gl["link_program"] = 1
       /\ gl["use_program"] = 0
       /\ \A op \in BufferOps \cup AttribOps : gl[op] = 0
  /\ console[MsgAttribErr] > 0 =>
       /\ gl["enable_vertex_attrib_array"] = 0
       /\ gl["vertex_attrib_pointer"] = 0
       /\ console[MsgBuffers] = 0
  /\ (\E m \in ErrorMsgs \ {MsgGlErr} : console[m] > 0) =>
       /\ LoopIdle
       /\ INIT_ONCE
       /\ \E i \in Tasks :
            /\ task[i] \in {"vertFailed", "fragFailed", "linkFailed", "attribFailed"}
            /\ Initializers = {i}
            /\ \A j \in Tasks \ {i} : glBy[j] = 0

C2_Witness ==
  \E i, j \in Tasks :
    /\ task[i] = "fragFailed"
    /\ task[j] = "already"
    /\ console[MsgFragErr] = 1
    /\ \A k \in Tasks : task[k] # "unspawned"

\* C3: when the context cannot be acquired, the initializer logs an error
\* and has issued no shader call and no buffer call and started no loop.
C3_ContextFailureLogged ==
  (\E i \in Tasks : task[i] = "panicked") =>
    /\ \E m \in ErrorMsgs : console[m] > 0
    /\ \A op \in ShaderOps \cup BufferOps : gl[op] = 0
    /\ LoopIdle

\* An attribute name has resolved to a negative slot.
AttribFailed == locs # <<>> /\ (locs[1] < 0 \/ locs[2] < 0)

\* C4 as stated: when attribute resolution fails, no buffer-bind operation
\* has been issued.
C4_NoBindBeforeAbort == AttribFailed => gl["bind_buffer"] = 0

\* C4 as amended: when attribute resolution fails, setup aborts before any
\* buffer is bound to an attribute slot (no enable_vertex_attrib_array, no
\* vertex_attrib_pointer, no bind_buffer after the lookup); the three
\* bind_buffer calls of the uploads, and only they, have been issued.
C4_NoAttribBindingBeforeAbort ==
  AttribFailed =>
    /\ gl["bind_buffer"] = 3
    /\ gl["buffer_data"] = 3
    /\ gl["enable_vertex_attrib_array"] = 0
    /\ gl["vertex_attrib_pointer"] = 0
    /\ glst.enabled = {}
    /\ glst.attribPointer = {}
    /\ console[MsgAttribErr] = 1
    /\ \A i \in Tasks : task[i] \notin {"bind", "start", "started"}
    /\ LoopIdle

C4_Witness ==
  /\ \E i \in Tasks : task[i] = "attribFailed"
  /\ locs[1] >= 0
  /\ locs[2] < 0
  /\ gl["bind_buffer"] = 3

\* Ticks whose draw call has been issued.
TicksDrawn == IF framePc = "draw" THEN frame_count - 1 ELSE frame_count

\* C5: every executed tick issues exactly one indexed draw, always of 36
\* indices; draws and ticks agree in number, and nothing is drawn before
\* setup has completed successfully.
C5_OneDrawPerTick ==
  /\ gl["draw_elements"] = TicksDrawn
  /\ drawCounts \subseteq {36}
  /\ gl["draw_elements"] > 0 => drawCounts = {36}
  /\ frame_count > 0 =>
       /\ LoopStarted
       /\ console[MsgLinked] = 1
       /\ console[MsgBuffers] = 1
       /\ gl["compile_shader"] = 2
       /\ glst.program = "program"
       /\ buffers.index = indices

C5_Witness ==
  /\ gl["draw_elements"] = 3
  /\ frame_count = 3
  /\ framePc = "idle"
  /\ drawCounts = {36}

\* C6: idle -> scheduled -> running -> scheduled ...: at most one frame
\* callback is pending, none before the loop is started, a tick starts only
\* by consuming the pending callback and ends only by scheduling exactly
\* one, as its last step.
C6_SingleFrameInFlight ==
  /\ [](/\ pendingFrames <= 1
        /\ framePc # "idle" => pendingFrames = 0
        /\ ~LoopStarted => (pendingFrames = 0 /\ framePc = "idle")
        /\ (LoopStarted /\ framePc = "idle") => pendingFrames = 1)
  /\ [][(framePc = "idle" /\ framePc' # "idle") =>
          (pendingFrames = 1 /\ pendingFrames' = 0 /\ framePc' = "draw")]_vars
  /\ [][(framePc # "idle" /\ framePc' = "idle") =>
          (framePc = "schedule" /\ pendingFrames' = pendingFrames + 1)]_vars
  /\ [][(framePc # "idle" /\ framePc' # "idle") => pendingFrames' = pendingFrames]_vars

C6_Witness ==
  /\ framePc = "schedule"
  /\ pendingFrames = 0
  /\ frame_count = 2
  /\ \E i \in Tasks : task[i] = "sleeping"

\* Ticks whose angle update has been stored.
TicksAdvanced ==
  IF framePc \in {"draw", "check", "advance"} THEN frame_count - 1 ELSE frame_count

\* The N-fold rounded sum ((0.0 + 0.02) + 0.02) + ... in binary32.
RECURSIVE IterSum(_)
IterSum(n) == IF n = 0 THEN F32Zero ELSE F32Add(IterSum(n - 1), AngleStep)

\* The exact product x * n rounded once to binary32 (x[1] * n < 2^31).
F32Product(x, n) ==
  IF n = 0 THEN F32Zero
  ELSE LET p == x[1] * n
           k == CHOOSE j \in 0..7 : p < 2^(24 + j) /\ (j = 0 \/ p >= 2^(23 + j))
           unit == 2^k
           q == p \div unit
           r == p % unit
           up == k > 0 /\ (2 * r > unit \/ (2 * r = unit /\ q % 2 = 1))
       IN F32Carry(IF up THEN q + 1 ELSE q, x[2] + k)

\* C7 as stated: after N executed ticks the angle equals 0.02 x N (read
\* in the claim's favour as the binary32 product of 0.02 and N).
C7_AngleIsStepTimesN == angle = F32Product(AngleStep, TicksAdvanced)

\* The angle in units of 2^-29, the unit of 0.02f32's mantissa.
AngleUnits == IF angle[1] = 0 THEN 0 ELSE angle[1] * 2^(angle[2] + 29)

\* C7 as amended: each tick replaces the angle by the binary32 sum
\* angle + 0.02, so after N ticks the angle is the N-fold rounded sum,
\* which stays within N half-units-in-the-last-place of 0.02f32 x N but is
\* not equal to it; only the frame loop's update step writes the angle, and
\* the angle never decreases and is never reset.
C7_AngleIsRoundedSum ==
  /\ [](/\ angle = IterSum(TicksAdvanced)
        /\ LET exact == AngleStep[1] * TicksAdvanced
               drift == IF AngleUnits >= exact THEN AngleUnits - exact
                        ELSE exact - AngleUnits
           IN 2 * drift <= TicksAdvanced * 2^(angle[2] + 29))
  /\ [][F32Le(angle, angle')]_vars
  /\ [][angle' # angle =>
          (framePc = "advance" /\ framePc' = "schedule" /\ angle' # F32Zero)]_vars

C7_Witness ==
  /\ TicksAdvanced = 6
  /\ framePc = "idle"
  /\ angle # F32Product(AngleStep, 6)
  /\ angle = IterSum(6)

\* Vertex positions of the mesh, three coordinates each.
VertexIds == 0..((Len(vertices) \div 3) - 1)

Coord(v, axis) == vertices[3 * v + axis]

\* The faces of the box: the vertices sharing one coordinate value.
Faces ==
  {f \in SUBSET VertexIds :
     /\ Cardinality(f) = 4
     /\ \E axis \in 1..3 : \E v \in f :
          f = {w \in VertexIds : Coord(w, axis) = Coord(v, axis)}}

\* The triangles an index sequence describes, as positions 0, 1, 2, ...
TriangleIds(ix) == 0..((Len(ix) \div 3) - 1)

Corners(ix, t) == {ix[3 * t + 1], ix[3 * t + 2], ix[3 * t + 3]}

Edges(ix, t) == {e \in SUBSET Corners(ix, t) : Cardinality(e) = 2}

\* C8: the uploaded index array has 36 entries forming 12 triangles, every
\* entry names one of the 8 vertices, each of the 6 faces is covered by
\* exactly two triangles, and the surface is closed (every edge of a
\* triangle is shared with exactly one other triangle).
C8_IndicesFormClosedCube ==
  buffers.index # <<>> =>
    LET ix == buffers.index IN
    /\ Len(ix) = 36
    /\ Cardinality(TriangleIds(ix)) = 12
    /\ Cardinality(VertexIds) = 8
    /\ \A k \in 1..Len(ix) : ix[k] \in 0..7 /\ ix[k] \in VertexIds
    /\ Cardinality(Faces) = 6
    /\ \A t \in TriangleIds(ix) : Cardinality(Corners(ix, t)) = 3
    /\ \A f \in Faces :
         LET on == {t \in TriangleIds(ix) : Corners(ix, t) \subseteq f}
         IN /\ Cardinality(on) = 2
            /\ UNION {Corners(ix, t) : t \in on} = f
    /\ \A t \in TriangleIds(ix) : \A e \in Edges(ix, t) :
         Cardinality({u \in TriangleIds(ix) : e \subseteq Corners(ix, u)}) = 2

C8_Witness ==
  /\ buffers.index = indices
  /\ glst.elementBinding = "index"
  /\ gl["draw_elements"] > 0

\* Entry (row, col) of a matrix stored column-major, rows and columns from 0.
At(M, row, col) == M.m[4 * col + row + 1]

\* M applied to the column vector v.
MulVec(M, v) ==
  [row \in 1..4 |->
     At(M, row - 1, 0) * v[1] + At(M, row - 1, 1) * v[2]
       + At(M, row - 1, 2) * v[3] + At(M, row - 1, 3) * v[4]]

Dot(M, i, j) ==
  At(M, 0, i) * At(M, 0, j) + At(M, 1, i) * At(M, 1, j)
    + At(M, 2, i) * At(M, 2, j) + At(M, 3, i) * At(M, 3, j)

\* Determinant by expansion along the first remaining row.
RECURSIVE Det(_, _, _)
Det(M, rows, cols) ==
  IF rows = <<>> THEN 1
  ELSE LET term(j) ==
             (IF j % 2 = 1 THEN 1 ELSE -1) * At(M, rows[1], cols[j])
               * Det(M, Tail(rows), SubSeq(cols, 1, j - 1) \o SubSeq(cols, j + 1, Len(cols)))
           sum[j \in 0..Len(cols)] == IF j = 0 THEN 0 ELSE sum[j - 1] + term(j)
       IN sum[Len(cols)]

C10_LoopNeverStops ==
  /\ [](LoopStarted => (pendingFrames = 1 \/ framePc # "idle"))
  /\ [][framePc = "check" => framePc' = "advance"]_vars
  /\ [][framePc = "advance" =>
          (angle' = F32Add(angle, AngleStep) /\ framePc' = "schedule")]_vars
  /\ (LoopStarted /\ framePc = "idle" /\ frame_count < MaxTicks) ~> (framePc = "draw")
  /\ (framePc = "draw") ~> (framePc = "idle" /\ pendingFrames = 1)
  /\ (framePc = "advance" /\ frameError) ~> (framePc = "idle" /\ pendingFrames = 1)

C10_Witness ==
  /\ frameError
  /\ console[MsgGlErr] >= 2
  /\ framePc = "draw"
  /\ frame_count >= 3
  /\ angle # F32Zero

====
